---------------------------- MODULE Spec2Model ----------------------------
(***************************************************************************)
(* Model of cli/cmd/tap.go (linkerd tap): the stream consumer loop         *)
(* (writeTapEventsToBuffer / renderTapEvents), the line renderer           *)
(* (renderTapEvent, peer.formatResource, routeLabels), the display mapper  *)
(* (mapPublicToDisplayTapEvent, renderTapEventJSON) and the address codec  *)
(* (getIPAddress).                                                         *)
(*                                                                         *)
(* Fixed-width integers wider than 31 bits are kept as big-endian tuples   *)
(* of 16-bit limbs: a uint32 is <<hi, lo>>, a uint64 is a 4-tuple.         *)
(* Text is a sequence of one-character strings where the characters        *)
(* matter (addresses), and a sequence of fields [k |-> key, v |-> value]   *)
(* in the order of the format string where only the fields matter.         *)
(***************************************************************************)
EXTENDS Integers, Sequences, FiniteSets, TLC

VARIABLES
    output,     \* options.output
    resource,   \* the resource kind handed to the renderer
    pc,         \* position of the control flow / which operation has run
    event,      \* the TapEvent decoded in the current loop iteration
    received,   \* events the source has delivered so far (history)
    handed,     \* records passed to fmt.Fprintln(w, ...) so far (history)
    wbuf,       \* lines held back by the tabwriter
    sink,       \* lines that reached the io.Writer under the tabwriter
    stderr,     \* what was printed on os.Stderr
    flushed,    \* writer.Flush() has been called
    ret,        \* return value of writeTapEventsToBuffer
    stop,       \* why the loop of renderTapEvents ended
    line,       \* result of renderTapEvent / renderTapEventJSON (pure checks)
    display,    \* result of mapPublicToDisplayTapEvent (pure checks)
    ip,         \* input of getIPAddress (pure checks)
    text        \* result of getIPAddress (pure checks)

vars == <<output, resource, pc, event, received, handed, wbuf, sink, stderr,
          flushed, ret, stop, line, display, ip, text>>

\* ------------------------------------------------------------------ bounds

\* Events the source may deliver before it must end or fail.
MaxEvents == 3
\* Largest seconds component of a duration.
MaxSeconds == 1
\* Largest gRPC status / reset error code.
MaxCode == 1

\* ------------------------------------------------------------------ values

\* A nil pointer / absent message.
Nil == [isNil |-> TRUE]

\* ------------------------------------------------------------- address codec

Digit == <<"0", "1", "2", "3", "4", "5", "6", "7", "8", "9",
           "a", "b", "c", "d", "e", "f">>

RECURSIVE Itoa(_, _)
\* n in the given base, no leading zeros (strconv / net's appendHex, ubtoa).
Itoa(n, base) ==
    IF n < base THEN <<Digit[n + 1]>>
    ELSE Itoa(n \div base, base) \o <<Digit[(n % base) + 1]>>

\* binary.BigEndian.PutUint32(b, v): the four bytes of <<hi, lo>>.
PutUint32(v) ==
    <<v[1] \div 256, v[1] % 256, v[2] \div 256, v[2] % 256>>

\* binary.BigEndian.PutUint64(b, v): the eight bytes of a 4-limb value.
PutUint64(v) ==
    <<v[1] \div 256, v[1] % 256, v[2] \div 256, v[2] % 256,
      v[3] \div 256, v[3] % 256, v[4] \div 256, v[4] % 256>>

\* Dotted-decimal text of four bytes.
DottedDecimal(b) ==
    Itoa(b[1], 10) \o <<".">> \o Itoa(b[2], 10) \o <<".">> \o
    Itoa(b[3], 10) \o <<".">> \o Itoa(b[4], 10)

\* The 16-bit group starting at byte i (1-based) of a 16-byte address.
Group(b, i) == b[i] * 256 + b[i + 1]

RECURSIVE ZeroRunEnd(_, _)
\* First byte index after the run of zero groups that starts at byte i.
ZeroRunEnd(b, i) ==
    IF i <= 15 /\ b[i] = 0 /\ b[i + 1] = 0 THEN ZeroRunEnd(b, i + 2) ELSE i

RECURSIVE LongestZeroRun(_, _, _)
\* <<e0, e1>>: the first longest run of zero groups found from byte i on,
\* given the best run so far.
LongestZeroRun(b, i, best) ==
    IF i > 15 THEN best
    ELSE LET j == ZeroRunEnd(b, i)
         IN  IF j > i /\ j - i > best[2] - best[1]
             THEN LongestZeroRun(b, j + 2, <<i, j>>)
             ELSE LongestZeroRun(b, i + 2, best)

RECURSIVE HexGroups(_, _, _)
\* The groups from byte i on, the run e (if any) shortened to "::".
HexGroups(b, i, e) ==
    IF i > 15 THEN <<>>
    ELSE IF i = e[1]
         THEN <<":", ":">> \o
              (IF e[2] > 15 THEN <<>> ELSE Itoa(Group(b, e[2]), 16) \o HexGroups(b, e[2] + 2, e))
         ELSE (IF i > 1 THEN <<":">> ELSE <<>>) \o Itoa(Group(b, i), 16) \o HexGroups(b, i + 2, e)

\* net.IP(b).String()
IPString(b) ==
    IF Len(b) = 0 THEN <<"<", "n", "i", "l", ">">>
    ELSE IF Len(b) = 4 THEN DottedDecimal(b)
    ELSE IF (\A i \in 1..10 : b[i] = 0) /\ b[11] = 255 /\ b[12] = 255
         THEN DottedDecimal(SubSeq(b, 13, 16))
    ELSE LET run == LongestZeroRun(b, 1, <<0, 0>>)
             e   == IF run[2] - run[1] <= 2 THEN <<0, 0>> ELSE run
         IN  HexGroups(b, 1, e)

\* IPAddress getters: the oneof is "v4" (a uint32), "v6" (two uint64) or unset.
GetIpv6(a) == IF a # Nil /\ a.tag = "v6" THEN a.v6 ELSE Nil
GetIpv4(a) == IF a # Nil /\ a.tag = "v4" THEN a.v4 ELSE <<0, 0>>

\* A variant of getIPAddress that stores the IPv4 value little-endian.
getIPAddressLittleEndian(a) ==
    IF GetIpv6(a) # Nil
    THEN IPString(PutUint64(GetIpv6(a).first) \o PutUint64(GetIpv6(a).last))
    ELSE IF GetIpv4(a) # <<0, 0>>
         THEN LET b == PutUint32(GetIpv4(a)) IN IPString(<<b[4], b[3], b[2], b[1]>>)
         ELSE IPString(<<>>)

getIPAddress(a) ==
    IF GetIpv6(a) # Nil
    THEN IPString(PutUint64(GetIpv6(a).first) \o PutUint64(GetIpv6(a).last))
    ELSE IF GetIpv4(a) # <<0, 0>>
         THEN IPString(PutUint32(GetIpv4(a)))
         ELSE IPString(<<>>)

\* --- standard dotted-decimal parsing (the inverse the round trip is checked against)

DigitValue(c) == CHOOSE d \in 0..9 : Digit[d + 1] = c

IsDecimalDigit(c) == \E d \in 0..9 : Digit[d + 1] = c

RECURSIVE Atoi(_)
Atoi(s) == IF s = <<>> THEN 0 ELSE Atoi(SubSeq(s, 1, Len(s) - 1)) * 10 + DigitValue(s[Len(s)])

RECURSIVE SplitDots(_, _)
\* The text cut at every "."; cur is the part being read.
SplitDots(s, cur) ==
    IF s = <<>> THEN <<cur>>
    ELSE IF s[1] = "." THEN <<cur>> \o SplitDots(Tail(s), <<>>)
    ELSE SplitDots(Tail(s), Append(cur, s[1]))

Invalid == <<"invalid">>

\* Four decimal fields of 1..3 digits, each at most 255, as a uint32 <<hi, lo>>.
ParseIPv4(s) ==
    LET parts == SplitDots(s, <<>>)
        ok(p) == /\ Len(p) \in 1..3
                 /\ \A i \in 1..Len(p) : IsDecimalDigit(p[i])
                 /\ (Len(p) > 1 => p[1] # "0")
                 /\ Atoi(p) <= 255
    IN  IF Len(parts) = 4 /\ \A i \in 1..4 : ok(parts[i])
        THEN <<Atoi(parts[1]) * 256 + Atoi(parts[2]), Atoi(parts[3]) * 256 + Atoi(parts[4])>>
        ELSE Invalid

\* ------------------------------------------------------ TapEvent accessors

\* The protobuf getters: each is nil-safe and yields the zero value when the
\* message or the oneof variant is absent.
GetIp(a) == IF a = Nil THEN Nil ELSE a.ip
GetPort(a) == IF a = Nil THEN 0 ELSE a.port
\* A nil map; looking a key up in it finds nothing.
NoLabels == <<>>
GetLabels(meta) == IF meta = Nil THEN NoLabels ELSE meta.labels
GetHttp(ev) == ev.http
GetEvent(http) == IF http = Nil THEN Nil ELSE http.event
GetRequestInit(http) ==
    IF GetEvent(http) # Nil /\ GetEvent(http).type = "RequestInit" THEN GetEvent(http).msg ELSE Nil
GetResponseInit(http) ==
    IF GetEvent(http) # Nil /\ GetEvent(http).type = "ResponseInit" THEN GetEvent(http).msg ELSE Nil
GetResponseEnd(http) ==
    IF GetEvent(http) # Nil /\ GetEvent(http).type = "ResponseEnd" THEN GetEvent(http).msg ELSE Nil
\* The dynamic type of the http oneof, as a type switch sees it.
EventType(http) == IF GetEvent(http) = Nil THEN "none" ELSE GetEvent(http).type
GetId(m) == IF m = Nil THEN Nil ELSE m.id
GetBase(id) == IF id = Nil THEN 0 ELSE id.base
GetStream(id) == IF id = Nil THEN 0 ELSE id.stream
GetMethod(m) == IF m = Nil THEN Nil ELSE m.method
GetScheme(m) == IF m = Nil THEN Nil ELSE m.scheme
\* HttpMethod.GetRegistered().String(): GET (the zero value) unless a
\* registered method is set.
GetRegistered(method) ==
    IF method # Nil /\ method.type = "registered" THEN method.v ELSE "GET"
GetAuthority(m) == IF m = Nil THEN "" ELSE m.authority
GetPath(m) == IF m = Nil THEN "" ELSE m.path
GetSinceRequestInit(m) == IF m = Nil THEN Nil ELSE m.sinceRequestInit
GetSinceResponseInit(m) == IF m = Nil THEN Nil ELSE m.sinceResponseInit
GetHttpStatus(m) == IF m = Nil THEN 0 ELSE m.httpStatus
GetResponseBytes(m) == IF m = Nil THEN 0 ELSE m.responseBytes
GetSeconds(d) == IF d = Nil THEN 0 ELSE d.seconds
GetNanos(d) == IF d = Nil THEN 0 ELSE d.nanos
GetEos(m) == IF m = Nil THEN Nil ELSE m.eos
GetEnd(eos) == IF eos = Nil THEN Nil ELSE eos.end
GetGrpcStatusCode(eos) ==
    IF GetEnd(eos) # Nil /\ GetEnd(eos).type = "GrpcStatusCode" THEN GetEnd(eos).code ELSE 0
GetResetErrorCode(eos) ==
    IF GetEnd(eos) # Nil /\ GetEnd(eos).type = "ResetErrorCode" THEN GetEnd(eos).code ELSE 0

\* ----------------------------------------------------------- line renderer

\* One formatted field of a line: key and value are sequences of strings.
F(k, v) == [k |-> k, v |-> v]

\* %d
Dec(n) == Itoa(n, 10)

\* A map lookup m[key]: the value and whether the key exists.
Has(m, key) == key \in DOMAIN m
Lookup(m, key) == IF Has(m, key) THEN m[key] ELSE ""

CodeNames == <<"OK", "Canceled", "Unknown", "InvalidArgument", "DeadlineExceeded",
               "NotFound", "AlreadyExists", "PermissionDenied", "ResourceExhausted",
               "FailedPrecondition", "Aborted", "OutOfRange", "Unimplemented",
               "Internal", "Unavailable", "DataLoss", "Unauthenticated">>

\* codes.Code(c).String()
CodeString(c) ==
    IF c < Len(CodeNames) THEN <<CodeNames[c + 1]>> ELSE <<"Code(">> \o Dec(c) \o <<")">>

\* k8s.Pod and k8s.Namespace, the label keys of a peer's pod and namespace.
Pod == "pod"
Namespace == "namespace"

\* k8s.ShortNameFromCanonicalResourceName: "" when there is no short name.
ShortNameFromCanonicalResourceName(kind) ==
    CASE kind = "deployment" -> "deploy"
      [] kind = "namespace" -> "ns"
      [] kind = "pod" -> "po"
      [] OTHER -> ""

\* addr.PublicAddressToString: "<ip>:<port>".
PublicAddressToString(a) == getIPAddress(GetIp(a)) \o <<":">> \o Dec(GetPort(a))

src(ev) == [address |-> ev.source, labels |-> GetLabels(ev.sourceMeta), direction |-> "src"]

dst(ev) == [address |-> ev.destination, labels |-> GetLabels(ev.destinationMeta), direction |-> "dst"]

formatAddr(p) == F(<<p.direction>>, PublicAddressToString(p.address))

tlsStatus(p) == Lookup(p.labels, "tls")

\* A variant of formatResource whose pod fallback is not an else branch.
formatResourceAlwaysPod(p, resourceKind) ==
    LET res == IF Has(p.labels, resourceKind)
               THEN LET short == ShortNameFromCanonicalResourceName(resourceKind)
                        kind  == IF short # "" THEN short ELSE resourceKind
                    IN  <<F(<<p.direction, "_res">>, <<kind, "/", p.labels[resourceKind]>>)>>
               ELSE <<>>
        pod == IF Has(p.labels, Pod)
               THEN <<F(<<p.direction, "_pod">>, <<p.labels[Pod]>>)>>
               ELSE <<>>
        ns  == IF resourceKind # Namespace /\ Has(p.labels, Namespace)
               THEN <<F(<<p.direction, "_ns">>, <<p.labels[Namespace]>>)>>
               ELSE <<>>
    IN  res \o pod \o ns

formatResource(p, resourceKind) ==
    LET s  == IF Has(p.labels, resourceKind)
              THEN LET short == ShortNameFromCanonicalResourceName(resourceKind)
                       kind  == IF short # "" THEN short ELSE resourceKind
                   IN  <<F(<<p.direction, "_res">>, <<kind, "/", p.labels[resourceKind]>>)>>
              ELSE IF Has(p.labels, Pod)
                   THEN <<F(<<p.direction, "_pod">>, <<p.labels[Pod]>>)>>
                   ELSE <<>>
        ns == IF resourceKind # Namespace /\ Has(p.labels, Namespace)
              THEN <<F(<<p.direction, "_ns">>, <<p.labels[Namespace]>>)>>
              ELSE <<>>
    IN  s \o ns

\* The orders in which a range over the map m may visit its keys.
RangeOrders(m) ==
    {o \in [1..Cardinality(DOMAIN m) -> DOMAIN m] : \A k \in DOMAIN m : \E i \in DOMAIN o : o[i] = k}

\* routeLabels, the map ranged over in the order `order`.
routeLabels(ev, order) ==
    [i \in DOMAIN order |->
        F(<<"rt_", order[i]>>, <<GetLabels(ev.routeMeta)[order[i]]>>)]

\* The flow segment: "proxy=%s %s %s tls=%s".
Flow(ev) ==
    LET proxy == CASE ev.proxyDirection = "INBOUND" -> "in "
                   [] ev.proxyDirection = "OUTBOUND" -> "out"
                   [] OTHER -> "???"
        tls   == CASE ev.proxyDirection = "INBOUND" -> tlsStatus(src(ev))
                   [] ev.proxyDirection = "OUTBOUND" -> tlsStatus(dst(ev))
                   [] OTHER -> ""
    IN  <<F(<<"proxy">>, <<proxy>>), formatAddr(src(ev)), formatAddr(dst(ev)),
          F(<<"tls">>, <<tls>>)>>

\* The resources suffix: empty unless `resource` is non-empty.
Resources(ev, rsrc, order) ==
    IF rsrc # ""
    THEN formatResource(src(ev), rsrc) \o formatResource(dst(ev), rsrc) \o routeLabels(ev, order)
    ELSE <<>>

IdField(m) == F(<<"id">>, Dec(GetBase(GetId(m))) \o <<":">> \o Dec(GetStream(GetId(m))))

\* "%dus" of Nanos/1000
Micros(d) == Dec(GetNanos(d) \div 1000) \o <<"us">>

\* A variant of renderTapEvent whose ResponseEnd case ignores the eos outcome.
renderTapEventNoEos(ev, rsrc, order) ==
    LET http == GetHttp(ev)
        flow == Flow(ev)
        resources == Resources(ev, rsrc, order)
    IN  IF EventType(http) = "ResponseEnd"
        THEN <<F(<<"end">>, <<>>), IdField(GetResponseEnd(http))>> \o flow \o
             <<F(<<"duration">>, Micros(GetSinceResponseInit(GetResponseEnd(http)))),
               F(<<"response-length">>, Dec(GetResponseBytes(GetResponseEnd(http))) \o <<"B">>)>>
             \o resources
        ELSE <<F(<<"unknown">>, <<>>)>> \o flow

\* renderTapEvent renders a TapEvent to a line; the map of route labels is
\* ranged over in the order `order`.
renderTapEvent(ev, rsrc, order) ==
    LET http == GetHttp(ev)
        flow == Flow(ev)
        resources == Resources(ev, rsrc, order)
    IN  CASE EventType(http) = "RequestInit" ->
               LET m == GetRequestInit(http)
               IN  <<F(<<"req">>, <<>>), IdField(m)>> \o flow \o
                   <<F(<<":method">>, <<GetRegistered(GetMethod(m))>>),
                     F(<<":authority">>, <<GetAuthority(m)>>),
                     F(<<":path">>, <<GetPath(m)>>)>> \o resources
          [] EventType(http) = "ResponseInit" ->
               LET m == GetResponseInit(http)
               IN  <<F(<<"rsp">>, <<>>), IdField(m)>> \o flow \o
                   <<F(<<":status">>, Dec(GetHttpStatus(m))),
                     F(<<"latency">>, Micros(GetSinceRequestInit(m)))>> \o resources
          [] EventType(http) = "ResponseEnd" ->
               LET m   == GetResponseEnd(http)
                   eos == GetEnd(GetEos(m))
                   tl  == <<F(<<"duration">>, Micros(GetSinceResponseInit(m))),
                            F(<<"response-length">>, Dec(GetResponseBytes(m)) \o <<"B">>)>>
                          \o resources
               IN  CASE eos # Nil /\ eos.type = "GrpcStatusCode" ->
                          <<F(<<"end">>, <<>>), IdField(m)>> \o flow \o
                          <<F(<<"grpc-status">>, CodeString(eos.code))>> \o tl
                     [] eos # Nil /\ eos.type = "ResetErrorCode" ->
                          <<F(<<"end">>, <<>>), IdField(m)>> \o flow \o
                          <<F(<<"reset-error">>, Dec(eos.code))>> \o tl
                     [] OTHER ->
                          <<F(<<"end">>, <<>>), IdField(m)>> \o flow \o tl
          [] OTHER -> <<F(<<"unknown">>, <<>>)>> \o flow

\* ------------------------------------------------- display mapper and JSON

\* TapEvent_ProxyDirection.String()
DirectionString(ev) == ev.proxyDirection

\* A variant of getResponseInitEvent that tests the ResponseEnd payload.
getResponseInitEventWrongPayload(pubEv) ==
    LET resI == GetResponseEnd(pubEv)
    IN  IF resI # Nil
        THEN [ID |-> [Base |-> GetBase(GetId(resI)), Stream |-> GetStream(GetId(resI))],
              SinceRequestInit |-> GetSinceRequestInit(resI),
              HTTPStatus |-> 0]
        ELSE Nil

getRequestInitEvent(pubEv) ==
    LET reqI == GetRequestInit(pubEv)
    IN  IF reqI # Nil
        THEN [ID |-> [Base |-> GetBase(GetId(reqI)), Stream |-> GetStream(GetId(reqI))],
              Method |-> GetMethod(reqI),
              Scheme |-> GetScheme(reqI),
              Authority |-> GetAuthority(reqI),
              Path |-> GetPath(reqI)]
        ELSE Nil

getResponseInitEvent(pubEv) ==
    LET resI == GetResponseInit(pubEv)
    IN  IF resI # Nil
        THEN [ID |-> [Base |-> GetBase(GetId(resI)), Stream |-> GetStream(GetId(resI))],
              SinceRequestInit |-> GetSinceRequestInit(resI),
              HTTPStatus |-> GetHttpStatus(resI)]
        ELSE Nil

getResponseEndEvent(pubEv) ==
    LET resE == GetResponseEnd(pubEv)
    IN  IF resE # Nil
        THEN [ID |-> [Base |-> GetBase(GetId(resE)), Stream |-> GetStream(GetId(resE))],
              SinceRequestInit |-> GetSinceRequestInit(resE),
              SinceResponseInit |-> GetSinceResponseInit(resE),
              ResponseBytes |-> GetResponseBytes(resE),
              GrpcStatusCode |-> GetGrpcStatusCode(GetEos(resE)),
              ResetErrorCode |-> GetResetErrorCode(GetEos(resE))]
        ELSE Nil

mapPublicToDisplayTapEvent(ev) ==
    [Source |-> [IP |-> getIPAddress(GetIp(ev.source)),
                 Port |-> GetPort(ev.source),
                 Metadata |-> GetLabels(ev.sourceMeta)],
     Destination |-> [IP |-> getIPAddress(GetIp(ev.destination)),
                      Port |-> GetPort(ev.destination),
                      Metadata |-> GetLabels(ev.destinationMeta)],
     RouteMeta |-> GetLabels(ev.routeMeta),
     ProxyDirection |-> DirectionString(ev),
     RequestInitEvent |-> getRequestInitEvent(GetHttp(ev)),
     ResponseInitEvent |-> getResponseInitEvent(GetHttp(ev)),
     ResponseEndEvent |-> getResponseEndEvent(GetHttp(ev))]

\* A string with a tab in it, and the same string as encoding/json writes it
\* (control characters escaped).
TabbedName == "web\tv1"
EscapedTabbedName == "web\\tv1"
JSONString(str) == IF str = TabbedName THEN EscapedTabbedName ELSE str

\* Every label key of the model, in the order encoding/json sorts map keys.
SortedKeys == <<"deployment", "namespace", "pod", "route", "tls", "zone">>

RECURSIVE JSONMapFrom(_, _, _)
\* The members of map m under the path `path`, keys from SortedKeys[i] on.
JSONMapFrom(path, m, i) ==
    IF i > Len(SortedKeys) THEN <<>>
    ELSE (IF Has(m, SortedKeys[i])
          THEN <<F(Append(path, SortedKeys[i]), <<JSONString(m[SortedKeys[i]])>>)>>
          ELSE <<>>) \o JSONMapFrom(path, m, i + 1)

\* A map member: the opening of its object, then its entries.
JSONMap(path, m) == <<F(path, <<"{">>)>> \o JSONMapFrom(path, m, 1)

JSONEndpoint(path, e) ==
    <<F(Append(path, "ip"), e.IP), F(Append(path, "port"), Dec(e.Port))>>
    \o JSONMap(Append(path, "metadata"), e.Metadata)

JSONStreamID(path, id) ==
    <<F(path \o <<"base">>, Dec(id.Base)), F(path \o <<"stream">>, Dec(id.Stream))>>

\* A pointer to a message: null when nil.
JSONDuration(path, d) ==
    IF d = Nil THEN <<F(path, <<"null">>)>>
    ELSE <<F(Append(path, "seconds"), Dec(d.seconds)), F(Append(path, "nanos"), Dec(d.nanos))>>

JSONOneof(path, m) ==
    IF m = Nil THEN <<F(path, <<"null">>)>> ELSE <<F(Append(path, m.type), <<m.v>>)>>

\* json.MarshalIndent of a tapEvent: the members in field order, the three
\* lifecycle members and the two codes subject to omitempty.
MarshalIndent(m) ==
    JSONEndpoint(<<"source">>, m.Source)
    \o JSONEndpoint(<<"destination">>, m.Destination)
    \o JSONMap(<<"routeMeta">>, m.RouteMeta)
    \o <<F(<<"proxyDirection">>, <<m.ProxyDirection>>)>>
    \o (IF m.RequestInitEvent = Nil THEN <<>>
        ELSE LET e == m.RequestInitEvent
                 p == <<"requestInitEvent">>
             IN  JSONStreamID(Append(p, "id"), e.ID)
                 \o JSONOneof(Append(p, "method"), e.Method)
                 \o JSONOneof(Append(p, "scheme"), e.Scheme)
                 \o <<F(Append(p, "authority"), <<JSONString(e.Authority)>>),
                      F(Append(p, "path"), <<JSONString(e.Path)>>)>>)
    \o (IF m.ResponseInitEvent = Nil THEN <<>>
        ELSE LET e == m.ResponseInitEvent
                 p == <<"responseInitEvent">>
             IN  JSONStreamID(Append(p, "id"), e.ID)
                 \o JSONDuration(Append(p, "sinceRequestInit"), e.SinceRequestInit)
                 \o <<F(Append(p, "httpStatus"), Dec(e.HTTPStatus))>>)
    \o (IF m.ResponseEndEvent = Nil THEN <<>>
        ELSE LET e == m.ResponseEndEvent
                 p == <<"responseEndEvent">>
             IN  JSONStreamID(Append(p, "id"), e.ID)
                 \o JSONDuration(Append(p, "sinceRequestInit"), e.SinceRequestInit)
                 \o JSONDuration(Append(p, "sinceResponseInit"), e.SinceResponseInit)
                 \o <<F(Append(p, "responseBytes"), Dec(e.ResponseBytes))>>
                 \o (IF e.GrpcStatusCode = 0 THEN <<>>
                     ELSE <<F(Append(p, "grpcStatusCode"), Dec(e.GrpcStatusCode))>>)
                 \o (IF e.ResetErrorCode = 0 THEN <<>>
                     ELSE <<F(Append(p, "resetErrorCode"), Dec(e.ResetErrorCode))>>))

\* The text renderTapEventJSON returns when json.MarshalIndent fails.
MarshalError == <<F(<<"Error marshalling JSON">>, <<"err", "\n">>)>>

\* A variant of renderTapEventJSON that renders nothing for an event it
\* cannot serialize.
renderTapEventJSONDropsError(ev) ==
    IF ev.jsonBad THEN <<>> ELSE MarshalIndent(mapPublicToDisplayTapEvent(ev))

\* renderTapEventJSON; ev.jsonBad says that json.MarshalIndent rejects the
\* event's display record.
renderTapEventJSON(ev) ==
    IF ev.jsonBad THEN MarshalError ELSE MarshalIndent(mapPublicToDisplayTapEvent(ev))

\* ------------------------------------------------------------ input domains

V4(hi, lo) == [tag |-> "v4", v4 |-> <<hi, lo>>]
V6(first, last) == [tag |-> "v6", v6 |-> [first |-> first, last |-> last]]

\* 10.0.0.1:80 and 10.0.0.2:8080
Peer1 == [ip |-> V4(2560, 1), port |-> 80]
Peer2 == [ip |-> V4(2560, 2), port |-> 8080]

Meta(labels) == [labels |-> labels]

StreamIDs == {Nil, [base |-> 1, stream |-> 2]}

\* google.protobuf.Duration values: seconds and nanos (0 .. 999,999,999).
NanosSamples == {0, 999, 1500, 999999999}
Durations == [seconds : 0..MaxSeconds, nanos : NanosSamples]

Codes == 0..MaxCode

\* The end-of-stream outcomes: no Eos, an Eos with no outcome, a gRPC status
\* code, a reset error code.
EosValues ==
    {Nil, [end |-> Nil]}
    \cup {[end |-> [type |-> "GrpcStatusCode", code |-> c]] : c \in Codes}
    \cup {[end |-> [type |-> "ResetErrorCode", code |-> c]] : c \in Codes}

RequestInit(id) ==
    [type |-> "RequestInit",
     msg |-> [id |-> id, method |-> [type |-> "registered", v |-> "POST"],
              scheme |-> [type |-> "registered", v |-> "HTTPS"],
              authority |-> "example.com", path |-> "/x"]]

ResponseInit(id, since) ==
    [type |-> "ResponseInit",
     msg |-> [id |-> id, sinceRequestInit |-> since, httpStatus |-> 200]]

ResponseEnd(id, sinceReq, sinceRsp, eos) ==
    [type |-> "ResponseEnd",
     msg |-> [id |-> id, sinceRequestInit |-> sinceReq, sinceResponseInit |-> sinceRsp,
              responseBytes |-> 42, eos |-> eos]]

\* The http field of a TapEvent: absent, present with no payload, or one of
\* the three lifecycle payloads.
HttpValues ==
    {Nil, [event |-> Nil]}
    \cup {[event |-> RequestInit(id)] : id \in StreamIDs}
    \cup {[event |-> ResponseInit([base |-> 1, stream |-> 2], d)] : d \in Durations \cup {Nil}}
    \cup {[event |-> ResponseEnd([base |-> 1, stream |-> 2], [seconds |-> 1, nanos |-> 1500], d, e)] :
            d \in {Nil, [seconds |-> 0, nanos |-> 999999999]}, e \in EosValues}

\* Label maps of a peer: every subset of the resource, pod and namespace keys.
LabelValue(k) ==
    CASE k = "deployment" -> "web" [] k = Pod -> "web-1" [] k = Namespace -> "default" [] OTHER -> "true"

PeerLabels ==
    {[k \in ks |-> LabelValue(k)] : ks \in SUBSET {"deployment", Pod, Namespace}}

SrcMetas == {Nil} \cup {Meta(l) : l \in PeerLabels}

DstMetas == {Nil, Meta([k \in {Pod, "tls"} |-> "true"]),
             Meta([k \in {"deployment", Namespace} |-> "emoji"])}

RouteMetas == {Nil, Meta([k \in {"route", "zone"} |-> IF k = "route" THEN "r1" ELSE "z1"])}

Directions == {"INBOUND", "OUTBOUND", "UNKNOWN"}

ResourceKinds == {"deployment", Namespace, Pod}

TapEvent(dir, sm, dm, rm, http, bad) ==
    [source |-> Peer1, sourceMeta |-> sm, destination |-> Peer2, destinationMeta |-> dm,
     routeMeta |-> rm, proxyDirection |-> dir, http |-> http, jsonBad |-> bad]

\* The events the pure renderers are applied to.
RenderEvents ==
    {TapEvent(dir, sm, dm, rm, http, FALSE) :
        dir \in Directions, sm \in SrcMetas, dm \in DstMetas, rm \in RouteMetas,
        http \in HttpValues}

\* The events the source of the loop may deliver.
LoopEvents ==
    {TapEvent("INBOUND", Meta([k \in {"deployment"} |-> "web"]), Nil,
              Meta([k \in {"route", "zone"} |-> IF k = "route" THEN "r1" ELSE "z1"]),
              [event |-> RequestInit([base |-> 1, stream |-> 2])], FALSE),
     TapEvent("OUTBOUND", Meta([k \in {Pod} |-> TabbedName]), Nil, Nil,
              [event |-> ResponseInit([base |-> 1, stream |-> 2], [seconds |-> 0, nanos |-> 1500])], FALSE),
     TapEvent("INBOUND", Nil, Nil, Nil,
              [event |-> ResponseEnd([base |-> 1, stream |-> 2], Nil, Nil,
                                     [end |-> [type |-> "GrpcStatusCode", code |-> 0]])], TRUE),
     TapEvent("UNKNOWN", Nil, Nil, Nil, Nil, FALSE)}

\* Octets that cover every digit count and both ends of the range.
OctetSamples == {0, 1, 9, 10, 99, 100, 255}

\* The IPAddress values the codec is applied to.
AddrInputs ==
    {Nil}
    \cup {V4(a * 256 + b, c * 256 + d) : a \in OctetSamples, b \in OctetSamples,
                                          c \in OctetSamples, d \in OctetSamples}
    \cup {V6(<<8193, 3512, 0, 0>>, <<0, 0, 0, 1>>), V6(<<0, 0, 0, 0>>, <<0, 0, 0, 0>>),
          V6(<<0, 0, 0, 0>>, <<0, 65535, 2560, 1>>)}

\* --------------------------------------------------- stream consumer loop

\* The values of options.output that validate() accepts.
wideOutput == "wide"
jsonOutput == "json"
Outputs == {"", wideOutput, jsonOutput}

\* The renderer and resource writeTapEventsToBuffer hands to renderTapEvents:
\* the record the chosen renderer makes of ev.
Render(out, ev, rsrc, order) ==
    IF out = jsonOutput THEN renderTapEventJSON(ev) ELSE renderTapEvent(ev, rsrc, order)

\* Every record the renderer may make of ev (one per order of the route map).
Renderings(out, ev, rsrc) ==
    {Render(out, ev, rsrc, order) : order \in RangeOrders(GetLabels(ev.routeMeta))}

\* A line with a tab in it has more than one cell: the tabwriter holds it back
\* for column alignment. A line of a single cell makes it write out all it holds.
HasTab(rec) == \E i \in DOMAIN rec : \E j \in DOMAIN rec[i].v : rec[i].v[j] = TabbedName

Prefix(q, k) == SubSeq(q, 1, k)

LoopVarsIdle ==
    /\ line = <<>> /\ display = Nil /\ ip = Nil /\ text = <<>>

Init ==
    /\ output \in Outputs
    /\ resource \in (IF output = wideOutput THEN ResourceKinds \ {Pod} ELSE {""})
    /\ pc = "decode"
    /\ event = Nil
    /\ received = <<>>
    /\ handed = <<>>
    /\ wbuf = <<>>
    /\ sink = <<>>
    /\ stderr = <<>>
    /\ flushed = "no"
    /\ ret = "none"
    /\ stop = "none"
    /\ LoopVarsIdle

\* protohttp.FromByteStreamToProtocolBuffers delivers an event.
DecodeEvent ==
    /\ pc = "decode"
    /\ Len(received) < MaxEvents
    /\ \E e \in LoopEvents :
        /\ event' = e
        /\ received' = Append(received, e)
    /\ pc' = "emit"
    /\ UNCHANGED <<output, resource, handed, wbuf, sink, stderr, flushed, ret, stop,
                   line, display, ip, text>>

\* The source is at its end: err == io.EOF, break, return nil.
DecodeEOF ==
    /\ pc = "decode"
    /\ stop' = "eof"
    /\ pc' = "flush"
    /\ UNCHANGED <<output, resource, event, received, handed, wbuf, sink, stderr,
                   flushed, ret, line, display, ip, text>>

\* A variant of DecodeFailure that returns the error to the caller.
DecodeFailureReturnsError ==
    /\ pc = "decode"
    /\ stderr' = Append(stderr, "decode error")
    /\ stop' = "decodeErr"
    /\ ret' = "err"
    /\ pc' = "done"
    /\ UNCHANGED <<output, resource, event, received, handed, wbuf, sink, flushed,
                   line, display, ip, text>>

\* The source fails: the error is printed on os.Stderr, break, return nil.
DecodeFailure ==
    /\ pc = "decode"
    /\ stderr' = Append(stderr, "decode error")
    /\ stop' = "decodeErr"
    /\ pc' = "flush"
    /\ UNCHANGED <<output, resource, event, received, handed, wbuf, sink, flushed, ret,
                   line, display, ip, text>>

\* fmt.Fprintln(w, rec) on the tabwriter: the record is held back, or all the
\* writer holds is written to the sink, which takes it or fails part-way.
\* next is where the loop goes on when the write succeeds.
Fprintln(rec, next) ==
    /\ handed' = Append(handed, rec)
    /\ \/ /\ HasTab(rec)
          /\ wbuf' = Append(wbuf, rec)
          /\ pc' = next
          /\ UNCHANGED <<sink, ret, stop>>
       \/ /\ ~HasTab(rec)
          /\ sink' = sink \o Append(wbuf, rec)
          /\ wbuf' = <<>>
          /\ pc' = next
          /\ UNCHANGED <<ret, stop>>
       \/ /\ ~HasTab(rec)
          /\ \E k \in 0..Len(wbuf) : sink' = sink \o Prefix(Append(wbuf, rec), k)
          /\ wbuf' = Append(wbuf, rec)
          \* if err != nil { return err }, in renderTapEvents and in its caller
          /\ stop' = "writeErr"
          /\ ret' = "err"
          /\ pc' = "done"

\* A variant of Emit that leaves the loop after the first record.
EmitOnce ==
    /\ pc = "emit"
    /\ \E rec \in Renderings(output, event, resource) : Fprintln(rec, "flush")
    /\ UNCHANGED <<output, resource, event, received, stderr, flushed, line, display, ip, text>>

\* A variant of Emit that writes nothing for an event without a lifecycle payload.
EmitSkipsUnknown ==
    /\ pc = "emit"
    /\ IF EventType(GetHttp(event)) = "none"
       THEN pc' = "decode" /\ UNCHANGED <<handed, wbuf, sink, ret, stop>>
       ELSE \E rec \in Renderings(output, event, resource) : Fprintln(rec, "decode")
    /\ UNCHANGED <<output, resource, event, received, stderr, flushed, line, display, ip, text>>

\* The event is rendered and the record written: fmt.Fprintln(w, render(&event, resource)).
Emit ==
    /\ pc = "emit"
    /\ \E rec \in Renderings(output, event, resource) : Fprintln(rec, "decode")
    /\ UNCHANGED <<output, resource, event, received, stderr, flushed, line, display, ip, text>>

\* renderTapEvents returned nil: writer.Flush(), whose error is dropped, and
\* return nil. A flush that has something to write may fail part-way.
Flush ==
    /\ pc = "flush"
    /\ \/ /\ sink' = sink \o wbuf
          /\ flushed' = "ok"
       \/ /\ wbuf # <<>>
          /\ \E k \in 0..(Len(wbuf) - 1) : sink' = sink \o Prefix(wbuf, k)
          /\ flushed' = "failed"
    /\ wbuf' = <<>>
    /\ ret' = "nil"
    /\ pc' = "done"
    /\ UNCHANGED <<output, resource, event, received, handed, stderr, stop,
                   line, display, ip, text>>

Next == DecodeEvent \/ DecodeEOF \/ DecodeFailure \/ Emit \/ Flush

Spec == Init /\ [][Next]_vars

\* ------------------------------------------------- the renderers on their own

InitRender ==
    /\ output = ""
    /\ resource \in ResourceKinds \cup {""}
    /\ pc = "input"
    /\ event \in RenderEvents
    /\ received = <<>> /\ handed = <<>> /\ wbuf = <<>> /\ sink = <<>> /\ stderr = <<>>
    /\ flushed = "no" /\ ret = "none" /\ stop = "none"
    /\ LoopVarsIdle

\* line := renderTapEvent(event, resource)
RenderLine ==
    /\ pc = "input"
    /\ \E order \in RangeOrders(GetLabels(event.routeMeta)) :
        line' = renderTapEvent(event, resource, order)
    /\ pc' = "rendered"
    /\ UNCHANGED <<output, resource, event, received, handed, wbuf, sink, stderr,
                   flushed, ret, stop, display, ip, text>>

\* display := mapPublicToDisplayTapEvent(event)
MapDisplay ==
    /\ pc = "input"
    /\ display' = mapPublicToDisplayTapEvent(event)
    /\ pc' = "mapped"
    /\ UNCHANGED <<output, resource, event, received, handed, wbuf, sink, stderr,
                   flushed, ret, stop, line, ip, text>>

NextRender == RenderLine \/ MapDisplay

SpecRender == InitRender /\ [][NextRender]_vars

\* ------------------------------------------------- the address codec on its own

InitAddr ==
    /\ output = "" /\ resource = ""
    /\ pc = "input"
    /\ event = Nil
    /\ received = <<>> /\ handed = <<>> /\ wbuf = <<>> /\ sink = <<>> /\ stderr = <<>>
    /\ flushed = "no" /\ ret = "none" /\ stop = "none"
    /\ line = <<>> /\ display = Nil /\ text = <<>>
    /\ ip \in AddrInputs

\* text := getIPAddress(ip)
Encode ==
    /\ pc = "input"
    /\ text' = getIPAddress(ip)
    /\ pc' = "encoded"
    /\ UNCHANGED <<output, resource, event, received, handed, wbuf, sink, stderr,
                   flushed, ret, stop, line, display, ip>>

NextAddr == Encode

SpecAddr == InitAddr /\ [][NextAddr]_vars

\* ------------------------------------------------------------------ claims

HasField(l, k) == \E i \in DOMAIN l : l[i].k = k
FieldValue(l, k) == l[CHOOSE i \in DOMAIN l : l[i].k = k].v
InLoop(p) == p \in {"decode", "emit"}
SourceEnded(st) == st \in {"eof", "decodeErr"}

\* C1: in every output mode the records handed to the writer are the
\* renderings of the events received so far, one per event and in arrival
\* order; while an event is being rendered it is the only one not yet handed
\* over, and the next event is requested only when none is outstanding.
C1_RecordsAreRenderingsInOrder ==
    /\ Len(handed) = Len(received) - (IF pc = "emit" THEN 1 ELSE 0)
    /\ \A i \in DOMAIN handed : handed[i] \in Renderings(output, received[i], resource)

C1_Witness ==
    /\ pc = "decode"
    /\ Len(handed) >= 2
    /\ handed[1] # handed[2]
    /\ output = jsonOutput

C3_FlushBeforeEveryReturn ==
    pc = "done" => flushed # "no"

\* C4 as stated: the loop is left only when the source is exhausted or fails.
C4_OnlySourceEndsLoop ==
    [][(InLoop(pc) /\ ~InLoop(pc')) => SourceEnded(stop')]_vars

\* C4, amended: the loop is left only when the source is exhausted or fails,
\* or when a write of a record to the output writer fails; while the source
\* delivers events and the writes succeed, the loop goes on.
C4_OnlySourceOrWriteFailureEndsLoop ==
    [][/\ (InLoop(pc) /\ ~InLoop(pc')) =>
            \/ pc = "decode" /\ SourceEnded(stop') /\ received' = received
            \/ pc = "emit" /\ stop' = "writeErr" /\ ret' = "err"
       /\ (pc = "emit" /\ stop' = "none") => pc' = "decode"
      ]_vars

C4_Witness ==
    /\ pc = "done"
    /\ stop = "writeErr"
    /\ Len(received) >= 2

\* C5 as stated: when JSON serialization of an event fails, the inline error
\* string is the event's record and the loop goes on to the next event.
C5_RenderFailureNeverStopsLoop ==
    [][(pc = "emit" /\ output = jsonOutput /\ event.jsonBad) =>
            /\ handed' = Append(handed, MarshalError)
            /\ pc' = "decode"
      ]_vars

\* C5, amended: when JSON serialization of an event fails, the inline error
\* string is handed to the writer as the event's single record, and the loop
\* goes on to the next event unless the write of that record fails; the
\* rendering failure itself never ends the loop.
C5_RenderFailureEmitsErrorRecord ==
    [][(pc = "emit" /\ output = jsonOutput /\ event.jsonBad) =>
            /\ handed' = Append(handed, MarshalError)
            /\ \/ pc' = "decode" /\ stop' = "none"
               \/ pc' = "done" /\ stop' = "writeErr"
      ]_vars

C5_Witness ==
    /\ pc = "decode"
    /\ output = jsonOutput
    /\ Len(handed) >= 1
    /\ received[Len(handed)].jsonBad
    /\ handed[Len(handed)] = MarshalError

\* C6: the lifecycle sub-records of the display record match the payload of
\* the event: the one that corresponds to the payload set is present, the
\* others are absent, and none is present when no payload is recognized.
C6_SubRecordsMatchPayload ==
    pc = "mapped" =>
        /\ display.RequestInitEvent # Nil <=> EventType(GetHttp(event)) = "RequestInit"
        /\ display.ResponseInitEvent # Nil <=> EventType(GetHttp(event)) = "ResponseInit"
        /\ display.ResponseEndEvent # Nil <=> EventType(GetHttp(event)) = "ResponseEnd"
        /\ Cardinality({f \in {"RequestInitEvent", "ResponseInitEvent", "ResponseEndEvent"} :
                            display[f] # Nil}) <= 1

C6_Witness ==
    /\ pc = "mapped"
    /\ EventType(GetHttp(event)) = "ResponseEnd"
    /\ display.ResponseEndEvent # Nil
    /\ display.RequestInitEvent = Nil
    /\ display.ResponseInitEvent = Nil

\* C7: the latency field of a response-init line is the whole
\* elapsed-since-request duration (seconds and nanoseconds) in whole
\* microseconds.
C7_LatencyIsWholeDuration ==
    (pc = "rendered" /\ EventType(GetHttp(event)) = "ResponseInit") =>
        LET d == GetSinceRequestInit(GetResponseInit(GetHttp(event)))
        IN  FieldValue(line, <<"latency">>)
                = Dec(GetSeconds(d) * 1000000 + GetNanos(d) \div 1000) \o <<"us">>

\* C8 as stated: for every 32-bit value of the IPv4 variant, the text
\* getIPAddress produces parses as dotted-decimal IPv4 back to that value.
C8_IPv4RoundTrip ==
    (pc = "encoded" /\ ip # Nil /\ ip.tag = "v4") => ParseIPv4(text) = ip.v4

\* C8, amended: for every nonzero 32-bit value of the IPv4 variant, the text
\* getIPAddress produces parses as dotted-decimal IPv4 back to that value;
\* for the value 0 the text is that of an empty address and does not parse.
C8_NonzeroIPv4RoundTrip ==
    (pc = "encoded" /\ ip # Nil /\ ip.tag = "v4") =>
        IF ip.v4 # <<0, 0>>
        THEN ParseIPv4(text) = ip.v4
        ELSE text = IPString(<<>>) /\ ParseIPv4(text) = Invalid

C8_Witness ==
    /\ pc = "encoded"
    /\ ip = V4(65535, 2560)
    /\ text = <<"2", "5", "5", ".", "2", "5", "5", ".", "1", "0", ".", "0">>

\* C9: the line of a ResponseEnd event has a grpc-status clause exactly when
\* the outcome is a gRPC status code (0 included), a reset-error clause
\* exactly when it is a reset error code (0 included), never both, and the
\* id, flow, duration and response-length fields in every case.
C9_EndOutcomeClauses ==
    (pc = "rendered" /\ EventType(GetHttp(event)) = "ResponseEnd") =>
        LET m   == GetResponseEnd(GetHttp(event))
            eos == GetEnd(GetEos(m))
            grpc  == eos # Nil /\ eos.type = "GrpcStatusCode"
            reset == eos # Nil /\ eos.type = "ResetErrorCode"
        IN  /\ HasField(line, <<"grpc-status">>) <=> grpc
            /\ grpc => FieldValue(line, <<"grpc-status">>) = CodeString(eos.code)
            /\ HasField(line, <<"reset-error">>) <=> reset
            /\ reset => FieldValue(line, <<"reset-error">>) = Dec(eos.code)
            /\ ~(HasField(line, <<"grpc-status">>) /\ HasField(line, <<"reset-error">>))
            /\ line[1] = F(<<"end">>, <<>>)
            /\ line[2] = IdField(m)
            /\ SubSeq(line, 3, 6) = Flow(event)
            /\ HasField(line, <<"duration">>)
            /\ FieldValue(line, <<"response-length">>) = Dec(GetResponseBytes(m)) \o <<"B">>

C9_Witness ==
    /\ pc = "rendered"
    /\ EventType(GetHttp(event)) = "ResponseEnd"
    /\ GetEnd(GetEos(GetResponseEnd(GetHttp(event)))) = [type |-> "ResetErrorCode", code |-> 0]
    /\ HasField(line, <<"reset-error">>)
    /\ ~HasField(line, <<"grpc-status">>)

\* The fields of the resources suffix a line can carry.
IsSuffixField(f) ==
    \/ Len(f.k) = 2 /\ f.k[2] \in {"_res", "_pod", "_ns"}
    \/ Len(f.k) = 2 /\ f.k[1] = "rt_"

\* l has the fields of part as a contiguous run.
Contains(l, part) ==
    \E i \in 0..(Len(l) - Len(part)) : SubSeq(l, i + 1, i + Len(part)) = part

\* C10: in wide mode formatResource emits <dir>_res=<short kind>/<name> when
\* the peer's labels have the resource kind as a key, <dir>_pod=<pod> only
\* when that key is absent and a pod label exists, never both, and
\* <dir>_ns=<namespace> exactly when a namespace label exists and the kind is
\* not "namespace"; the line of an event with a lifecycle payload carries
\* these fields. In compact mode the line carries no resource, namespace or
\* route-label field.
C10_ResourceSuffix ==
    pc = "rendered" =>
        /\ resource # "" =>
            \A p \in {src(event), dst(event)} :
                LET out   == formatResource(p, resource)
                    short == ShortNameFromCanonicalResourceName(resource)
                    kind  == IF short # "" THEN short ELSE resource
                IN  /\ HasField(out, <<p.direction, "_res">>) <=> Has(p.labels, resource)
                    /\ Has(p.labels, resource) =>
                        FieldValue(out, <<p.direction, "_res">>) = <<kind, "/", p.labels[resource]>>
                    /\ HasField(out, <<p.direction, "_pod">>)
                        <=> (~Has(p.labels, resource) /\ Has(p.labels, Pod))
                    /\ HasField(out, <<p.direction, "_pod">>) =>
                        FieldValue(out, <<p.direction, "_pod">>) = <<p.labels[Pod]>>
                    /\ HasField(out, <<p.direction, "_ns">>)
                        <=> (Has(p.labels, Namespace) /\ resource # Namespace)
                    /\ HasField(out, <<p.direction, "_ns">>) =>
                        FieldValue(out, <<p.direction, "_ns">>) = <<p.labels[Namespace]>>
                    /\ \A i \in DOMAIN out : out[i].k[1] = p.direction /\ IsSuffixField(out[i])
                    /\ EventType(GetHttp(event)) # "none" => Contains(line, out)
        /\ resource = "" => \A i \in DOMAIN line : ~IsSuffixField(line[i])

C10_Witness ==
    /\ pc = "rendered"
    /\ resource = "deployment"
    /\ HasField(line, <<"src", "_pod">>)
    /\ HasField(line, <<"src", "_ns">>)
    /\ HasField(line, <<"dst", "_res">>)
    /\ ~HasField(line, <<"src", "_res">>)

=============================================================================
